---- MODULE Spec2Model ----
(***************************************************************************)
(* Model of src/src/lib.rs (rust-wasm-metaball): the exported start(), its *)
(* helpers get_shader / init_shaders / init_buffers / add_event_listener / *)
(* start_animation / request_animation_frame, the mousemove listener and   *)
(* the per-frame closure.                                                  *)
(*                                                                         *)
(* The host is a single JavaScript thread: one task (the call of start(), *)
(* one mousemove dispatch, one animation-frame callback) runs to its       *)
(* return before the next one begins.  pc = "idle" is the host's event     *)
(* loop between tasks; every other value of pc is a position inside the    *)
(* task that is running.  The WebGL context is the record gl; what the     *)
(* driver answers (compile status, link status, info logs, which uniform   *)
(* and attribute locations exist) is chosen when the code asks.            *)
(***************************************************************************)
EXTENDS Integers, Sequences, FiniteSets, TLC

\* ------------------------------------------------------------------ bounds
\* frames the host is allowed to run before the model stops ticking
MaxFrames == 2
\* pointer offsets delivered by mousemove events range over 0..MaxCoord
MaxCoord == 1
\* the surface's client width and height range over 0..MaxDim
MaxDim == 1
\* Date.now()/1000 returns a value in 0..MaxClock at each read
MaxClock == 1
\* a present attribute location is in 0..MaxAttribLoc
MaxAttribLoc == 0
\* the driver's MAX_VERTEX_ATTRIBS: indices 0..MaxVertexAttribs-1 are valid
MaxVertexAttribs == 2

Coords == 0..MaxCoord
Dims == 0..MaxDim
ClockValues == 0..MaxClock
\* get_attrib_location: -1 when the program has no such active attribute
AttribLocations == (-1)..MaxAttribLoc
\* the info log the driver reports for a failed compile or link
InfoLogs == {"", "ERROR: 0:1: syntax error"}

UniformNames == {"time", "mouse", "resolution"}

\* ------------------------------------------------------- program constants
FRAGMENT_SHADER == "FRAGMENT_SHADER"
VERTEX_SHADER == "VERTEX_SHADER"
\* `as u32` of an i32 (two's complement, 32 bits).  The u32 is kept as its
\* two 16-bit halves <<high, low>>, its value being high * 2^16 + low:
\* -1 becomes <<65535, 65535>>, that is 4294967295.
Half == 65536
AsU32(i) == <<(i \div Half) % Half, i % Half>>
\* the u32 is a valid index of a table of n entries (n < 2^16)
U32Below(u, n) == u[1] = 0 /\ u[2] < n

PositionData == <<-1, 1, 0,  1, 1, 0,  -1, -1, 0,  1, -1, 0>>
IndexData == <<0, 2, 1,  1, 2, 3>>
LinkErrorPrefix == "shader program could not be initialised: "

VARIABLES
    pc,               \* position of the running task; "idle" between tasks
    startResult,      \* "none" | "ok" | "err" | "panic": how start() ended
    errValue,         \* the JsValue of Err: <<prefix, text>>
    listeners,        \* mousemove listeners registered on the canvas
    contextLost,      \* the context handed out is lost (create_* give null)
    gl,               \* the WebGL context's objects and bindings
    setupCalls,       \* context calls made by start(), in order
    frameCalls,       \* calls made by the running frame callback, in order
    canvas_w, canvas_h,
    mouse_x, mouse_y, \* the two RefCell<i32> cells
    event,            \* the mousemove event being handled: <<x, y>> or <<>>
    fragment_shader, vertex_shader, shader_program,
    ul_time, ul_mouse, ul_resolution,   \* "None" | "Some"
    position_buffer, index_buffer,
    attrib_location,  \* u32, as <<high, low>>
    start_time,
    f,                \* start_animation's slot: "None" | "Some"
    rafPending,       \* callbacks registered with requestAnimationFrame
    regs,             \* who made each registration, in order
    ticks,            \* callbacks the host has invoked
    framesRun,        \* executions of the frame closure that have completed
    prevElapsed,      \* <<e>>: the elapsed value the last finished frame
                      \* pushed to the time uniform; <<>> when none has
    delivered,        \* <<x, y>> of the last mousemove event dispatched
    borrow,           \* RefCell borrow flags of mouse_x, mouse_y and the
                      \* slot: 0 free, n > 0 shared borrows, -1 borrowed mut
    cellError         \* "none", or the panic a cell access ended in

hostVars == <<listeners, contextLost, gl, rafPending, regs, ticks>>
resultVars == <<startResult, errValue>>
mouseVars == <<mouse_x, mouse_y, event>>
shaderLocals == <<fragment_shader, vertex_shader, shader_program>>
uniformLocals == <<ul_time, ul_mouse, ul_resolution>>
bufferLocals == <<position_buffer, index_buffer, attrib_location>>
surfaceLocals == <<canvas_w, canvas_h>>
histVars == <<prevElapsed, delivered>>
cellVars == <<borrow, cellError>>
vars == <<pc, startResult, errValue, listeners, contextLost, gl, setupCalls,
          frameCalls, canvas_w, canvas_h, mouse_x, mouse_y, event,
          fragment_shader, vertex_shader, shader_program,
          ul_time, ul_mouse, ul_resolution, position_buffer, index_buffer,
          attrib_location, start_time, f, rafPending, regs, ticks, framesRun,
          prevElapsed, delivered, borrow, cellError>>

\* ----------------------------------------------------------------- helpers
Call(op, args) == [op |-> op, args |-> args]
Ops(calls) == [i \in 1..Len(calls) |-> calls[i].op]
HasOp(calls, op) == \E i \in 1..Len(calls) : calls[i].op = op

StartPcs == {"get_canvas", "get_context", "track", "fragment", "vertex",
             "link", "uniforms", "buffers", "bind", "animate", "register",
             "return"}
HandlerPcs == {"frame_clear", "frame_time", "frame_mouse",
               "frame_resolution", "frame_draw"}
CallbackPcs == HandlerPcs \cup {"rearm", "cb_return"}
MousePcs == {"mouse_y"}

\* the task that is running on the thread
Running ==
    IF pc \in {"animate", "register"} THEN "start_animation"
    ELSE IF pc \in StartPcs THEN "start"
    ELSE IF pc \in CallbackPcs THEN "callback"
    ELSE IF pc \in MousePcs THEN "listener"
    ELSE "host"

GLInit ==
    [shaders |-> <<>>, programs |-> <<>>, buffers |-> <<>>,
     currentProgram |-> 0, ARRAY_BUFFER |-> 0, ELEMENT_ARRAY_BUFFER |-> 0,
     enabledAttribs |-> {}, attribPointers |-> {}, errors |-> <<>>]

Init ==
    /\ pc = "idle"
    /\ startResult = "none"
    /\ errValue = <<>>
    /\ listeners = 0
    /\ contextLost = FALSE
    /\ gl = GLInit
    /\ setupCalls = <<>>
    /\ frameCalls = <<>>
    /\ canvas_w = 0 /\ canvas_h = 0
    /\ mouse_x = 0 /\ mouse_y = 0
    /\ event = <<>>
    /\ fragment_shader = 0 /\ vertex_shader = 0 /\ shader_program = 0
    /\ ul_time = "None" /\ ul_mouse = "None" /\ ul_resolution = "None"
    /\ position_buffer = 0 /\ index_buffer = 0
    /\ attrib_location = <<0, 0>>
    /\ start_time = 0
    /\ f = "None"
    /\ rafPending = 0
    /\ regs = <<>>
    /\ ticks = 0
    /\ framesRun = 0
    /\ prevElapsed = <<>>
    /\ delivered = <<0, 0>>
    /\ borrow = [mouse_x |-> 0, mouse_y |-> 0, f |-> 0]
    /\ cellError = "none"

\* start() returns Err(e): the `?` operator and `return Err(e)`
ReturnErr(e) ==
    /\ startResult' = "err"
    /\ errValue' = e
    /\ pc' = "idle"

\* an unwrap()/expect() on None aborts the call
Panic ==
    /\ startResult' = "panic"
    /\ errValue' = errValue
    /\ pc' = "idle"

Continue(next) ==
    /\ pc' = next
    /\ UNCHANGED resultVars

\* ------------------------------------------------------------- start()
\* the host page calls the exported start() (once)
CallStart ==
    /\ pc = "idle"
    /\ startResult = "none"
    /\ pc' = "get_canvas"
    /\ UNCHANGED <<resultVars, hostVars, setupCalls, frameCalls, surfaceLocals,
                   mouseVars, shaderLocals, uniformLocals, bufferLocals,
                   start_time, f, framesRun, histVars,
                   cellVars>>

\* line 50: get_canvas_element_by_id("canvas")?
get_canvas_element_by_id ==
    /\ pc = "get_canvas"
    /\ \E found \in BOOLEAN :
          IF found THEN Continue("get_context")
          ELSE ReturnErr(<<"", "Element doesn't exist.">>)
    /\ UNCHANGED <<hostVars, setupCalls, frameCalls, surfaceLocals,
                   mouseVars, shaderLocals, uniformLocals, bufferLocals,
                   start_time, f, framesRun, histVars,
                   cellVars>>

\* line 51: get_webgl_context(&canvas)?; the context handed out may be lost
get_webgl_context ==
    /\ pc = "get_context"
    /\ \E got \in BOOLEAN, lost \in BOOLEAN :
          IF got
          THEN /\ Continue("track")
               /\ contextLost' = lost
               /\ setupCalls' = Append(setupCalls, Call("viewport", <<>>))
          ELSE /\ ReturnErr(<<"", "Couldn't get WebGL context.2">>)
               /\ UNCHANGED <<contextLost, setupCalls>>
    /\ UNCHANGED <<listeners, gl, rafPending, regs, ticks, frameCalls,
                   surfaceLocals, mouseVars, shaderLocals, uniformLocals,
                   bufferLocals, start_time, f, framesRun, histVars,
                   cellVars>>

\* add_event_listener registering the closure a second time
add_event_listener_Twice(registered) ==
    IF registered
    THEN /\ listeners' = listeners + 2
         /\ Continue("fragment")
    ELSE /\ listeners' = listeners
         /\ ReturnErr(<<"", "addEventListener failed">>)

\* add_event_listener without cb.forget(): the closure is dropped on return
\* and the listener is dead
add_event_listener_NotKept(registered) ==
    IF registered
    THEN /\ listeners' = listeners
         /\ Continue("fragment")
    ELSE /\ listeners' = listeners
         /\ ReturnErr(<<"", "addEventListener failed">>)

\* add_event_listener: the closure is registered and forgotten (never
\* removed); Err when addEventListener throws
add_event_listener(registered) ==
    IF registered
    THEN /\ listeners' = listeners + 1
         /\ Continue("fragment")
    ELSE /\ listeners' = listeners
         /\ ReturnErr(<<"", "addEventListener failed">>)

\* lines 53-66: the pointer cells, the surface size, the mousemove listener
TrackPointer ==
    /\ pc = "track"
    /\ mouse_x' = 0
    /\ mouse_y' = 0
    /\ \E w \in Dims, h \in Dims : canvas_w' = w /\ canvas_h' = h
    /\ \E registered \in BOOLEAN : add_event_listener(registered)
    /\ UNCHANGED <<contextLost, gl, rafPending, regs, ticks, setupCalls,
                   frameCalls, event, shaderLocals, uniformLocals,
                   bufferLocals, start_time, f, framesRun, histVars,
                   cellVars>>

\* get_shader returning Ok(shader) without looking at COMPILE_STATUS
get_shader_IgnoresStatus(shader_type, source, next) ==
    IF contextLost
    THEN /\ Panic
         /\ setupCalls' = Append(setupCalls, Call("create_shader", <<shader_type>>))
         /\ UNCHANGED <<gl, fragment_shader, vertex_shader>>
    ELSE \E compile_is_succeeded \in BOOLEAN, log \in InfoLogs :
         LET shader == Len(gl.shaders) + 1
             object == [type |-> shader_type, source |-> source,
                        compiled |-> compile_is_succeeded,
                        log |-> IF compile_is_succeeded THEN "" ELSE log]
         IN  /\ gl' = [gl EXCEPT !.shaders = Append(@, object)]
             /\ Continue(next)
             /\ setupCalls' = setupCalls \o
                   <<Call("create_shader", <<shader_type>>),
                     Call("shader_source", <<shader>>),
                     Call("compile_shader", <<shader>>)>>
             /\ fragment_shader' = IF shader_type = FRAGMENT_SHADER
                                   THEN shader ELSE fragment_shader
             /\ vertex_shader' = IF shader_type = VERTEX_SHADER
                                 THEN shader ELSE vertex_shader

\* get_shader aborting on a failed compile instead of returning Err
get_shader_Panics(shader_type, source, next) ==
    IF contextLost
    THEN /\ Panic
         /\ setupCalls' = Append(setupCalls, Call("create_shader", <<shader_type>>))
         /\ UNCHANGED <<gl, fragment_shader, vertex_shader>>
    ELSE \E compile_is_succeeded \in BOOLEAN, log \in InfoLogs :
         LET shader == Len(gl.shaders) + 1
             object == [type |-> shader_type, source |-> source,
                        compiled |-> compile_is_succeeded,
                        log |-> IF compile_is_succeeded THEN "" ELSE log]
             calls == <<Call("create_shader", <<shader_type>>),
                        Call("shader_source", <<shader>>),
                        Call("compile_shader", <<shader>>),
                        Call("get_shader_parameter", <<shader>>)>>
         IN  /\ gl' = [gl EXCEPT !.shaders = Append(@, object)]
             /\ setupCalls' = setupCalls \o calls
             /\ IF compile_is_succeeded
                THEN /\ Continue(next)
                     /\ fragment_shader' = IF shader_type = FRAGMENT_SHADER
                                           THEN shader ELSE fragment_shader
                     /\ vertex_shader' = IF shader_type = VERTEX_SHADER
                                         THEN shader ELSE vertex_shader
                ELSE /\ Panic
                     /\ UNCHANGED <<fragment_shader, vertex_shader>>

\* get_shader (lines 151-162), reached from init_shaders through `?`
get_shader(shader_type, source, next) ==
    IF contextLost
    THEN \* create_shader gives None: unwrap() panics (line 152)
         /\ Panic
         /\ setupCalls' = Append(setupCalls, Call("create_shader", <<shader_type>>))
         /\ UNCHANGED <<gl, fragment_shader, vertex_shader>>
    ELSE \E compile_is_succeeded \in BOOLEAN, log \in InfoLogs :
         LET shader == Len(gl.shaders) + 1
             object == [type |-> shader_type, source |-> source,
                        compiled |-> compile_is_succeeded,
                        log |-> IF compile_is_succeeded THEN "" ELSE log]
             calls == <<Call("create_shader", <<shader_type>>),
                        Call("shader_source", <<shader>>),
                        Call("compile_shader", <<shader>>),
                        Call("get_shader_parameter", <<shader>>)>>
         IN  /\ gl' = [gl EXCEPT !.shaders = Append(@, object)]
             /\ IF compile_is_succeeded
                THEN /\ Continue(next)
                     /\ setupCalls' = setupCalls \o calls
                     /\ fragment_shader' = IF shader_type = FRAGMENT_SHADER
                                           THEN shader ELSE fragment_shader
                     /\ vertex_shader' = IF shader_type = VERTEX_SHADER
                                         THEN shader ELSE vertex_shader
                ELSE /\ ReturnErr(<<"", object.log>>)
                     /\ setupCalls' = setupCalls \o calls \o
                                      <<Call("get_shader_info_log", <<shader>>)>>
                     /\ UNCHANGED <<fragment_shader, vertex_shader>>

\* line 165
CompileFragment ==
    /\ pc = "fragment"
    /\ get_shader(FRAGMENT_SHADER, "FRAGMENT_SHADER source", "vertex")
    /\ UNCHANGED <<listeners, contextLost, rafPending, regs, ticks, frameCalls,
                   surfaceLocals, mouseVars, shader_program, uniformLocals,
                   bufferLocals, start_time, f, framesRun, histVars,
                   cellVars>>

\* line 166
CompileVertex ==
    /\ pc = "vertex"
    /\ get_shader(VERTEX_SHADER, "VERTEX_SHADER source", "link")
    /\ UNCHANGED <<listeners, contextLost, rafPending, regs, ticks, frameCalls,
                   surfaceLocals, mouseVars, shader_program, uniformLocals,
                   bufferLocals, start_time, f, framesRun, histVars,
                   cellVars>>

\* init_shaders calling use_program before it looks at LINK_STATUS
LinkProgram_UseBeforeCheck ==
    /\ pc = "link"
    /\ \E shader_is_created \in BOOLEAN, info \in InfoLogs,
          uniforms \in SUBSET UniformNames, position \in AttribLocations :
         LET program == Len(gl.programs) + 1
             object == [attached |-> <<vertex_shader, fragment_shader>>,
                        linked |-> shader_is_created,
                        log |-> IF shader_is_created THEN "" ELSE info,
                        uniforms |-> IF shader_is_created THEN uniforms ELSE {},
                        position |-> IF shader_is_created THEN position ELSE -1]
             calls == <<Call("create_program", <<>>),
                        Call("attach_shader", <<program, vertex_shader>>),
                        Call("attach_shader", <<program, fragment_shader>>),
                        Call("link_program", <<program>>),
                        Call("use_program", <<program>>),
                        Call("get_program_parameter", <<program>>)>>
         IN  /\ gl' = [gl EXCEPT !.programs = Append(@, object),
                                 !.currentProgram = program]
             /\ IF shader_is_created
                THEN /\ setupCalls' = setupCalls \o calls
                     /\ shader_program' = program
                     /\ Continue("uniforms")
                ELSE /\ setupCalls' = setupCalls \o calls \o
                                      <<Call("get_program_info_log", <<program>>)>>
                     /\ shader_program' = shader_program
                     /\ ReturnErr(<<LinkErrorPrefix, object.log>>)
    /\ UNCHANGED <<listeners, contextLost, rafPending, regs, ticks, frameCalls,
                   surfaceLocals, mouseVars, fragment_shader, vertex_shader,
                   uniformLocals, bufferLocals, start_time, f, framesRun, histVars,
                   cellVars>>

\* lines 168-183 of init_shaders and the match of lines 68-71
LinkProgram ==
    /\ pc = "link"
    /\ \E shader_is_created \in BOOLEAN, info \in InfoLogs,
          uniforms \in SUBSET UniformNames, position \in AttribLocations :
         LET program == Len(gl.programs) + 1
             object == [attached |-> <<vertex_shader, fragment_shader>>,
                        linked |-> shader_is_created,
                        log |-> IF shader_is_created THEN "" ELSE info,
                        uniforms |-> IF shader_is_created THEN uniforms ELSE {},
                        position |-> IF shader_is_created THEN position ELSE -1]
             calls == <<Call("create_program", <<>>),
                        Call("attach_shader", <<program, vertex_shader>>),
                        Call("attach_shader", <<program, fragment_shader>>),
                        Call("link_program", <<program>>),
                        Call("get_program_parameter", <<program>>)>>
         IN  IF shader_is_created
             THEN /\ gl' = [gl EXCEPT !.programs = Append(@, object),
                                      !.currentProgram = program]
                  /\ setupCalls' = setupCalls \o calls \o
                                   <<Call("use_program", <<program>>)>>
                  /\ shader_program' = program
                  /\ Continue("uniforms")
             ELSE /\ gl' = [gl EXCEPT !.programs = Append(@, object)]
                  /\ setupCalls' = setupCalls \o calls \o
                                   <<Call("get_program_info_log", <<program>>)>>
                  /\ shader_program' = shader_program
                  /\ ReturnErr(<<LinkErrorPrefix, object.log>>)
    /\ UNCHANGED <<listeners, contextLost, rafPending, regs, ticks, frameCalls,
                   surfaceLocals, mouseVars, fragment_shader, vertex_shader,
                   uniformLocals, bufferLocals, start_time, f, framesRun, histVars,
                   cellVars>>

\* context.get_uniform_location: Some exactly for an active uniform
get_uniform_location(program, name) ==
    IF name \in gl.programs[program].uniforms THEN "Some" ELSE "None"

\* lines 73-75
LookupUniforms ==
    /\ pc = "uniforms"
    /\ ul_time' = get_uniform_location(shader_program, "time")
    /\ ul_mouse' = get_uniform_location(shader_program, "mouse")
    /\ ul_resolution' = get_uniform_location(shader_program, "resolution")
    /\ setupCalls' = setupCalls \o
          <<Call("get_uniform_location", <<shader_program, "time">>),
            Call("get_uniform_location", <<shader_program, "mouse">>),
            Call("get_uniform_location", <<shader_program, "resolution">>)>>
    /\ Continue("buffers")
    /\ UNCHANGED <<hostVars, frameCalls, surfaceLocals, mouseVars,
                   shaderLocals, bufferLocals, start_time, f, framesRun, histVars,
                   cellVars>>

\* init_buffers (lines 185-218), called at line 77
init_buffers ==
    /\ pc = "buffers"
    /\ LET position == Len(gl.buffers) + 1
           index == Len(gl.buffers) + 2
       IN  /\ gl' = [gl EXCEPT
                  !.buffers = @ \o <<[target |-> "ARRAY_BUFFER",
                                      data |-> PositionData],
                                     [target |-> "ELEMENT_ARRAY_BUFFER",
                                      data |-> IndexData]>>,
                  !.ARRAY_BUFFER = position,
                  !.ELEMENT_ARRAY_BUFFER = index]
           /\ setupCalls' = setupCalls \o
                <<Call("create_buffer", <<position>>),
                  Call("bind_buffer", <<"ARRAY_BUFFER", position>>),
                  Call("buffer_data", <<"ARRAY_BUFFER">>),
                  Call("create_buffer", <<index>>),
                  Call("bind_buffer", <<"ELEMENT_ARRAY_BUFFER", index>>),
                  Call("buffer_data", <<"ELEMENT_ARRAY_BUFFER">>)>>
           /\ position_buffer' = position
           /\ index_buffer' = index
    /\ Continue("bind")
    /\ UNCHANGED <<listeners, contextLost, rafPending, regs, ticks, frameCalls,
                   surfaceLocals, mouseVars, shaderLocals, uniformLocals,
                   attrib_location, start_time, f, framesRun, histVars,
                   cellVars>>

\* enable_vertex_attrib_array and vertex_attrib_pointer reject an index that
\* is not below MAX_VERTEX_ATTRIBS with INVALID_VALUE and change nothing
EnableAndPoint(g, index, buffer) ==
    IF U32Below(index, MaxVertexAttribs)
    THEN [g EXCEPT !.enabledAttribs = @ \cup {index[2]},
                   !.attribPointers = {p \in @ : p[1] # index[2]}
                                      \cup {<<index[2], buffer>>}]
    ELSE [g EXCEPT !.errors = @ \o <<"INVALID_VALUE", "INVALID_VALUE">>]

\* lines 78-92: the attribute location and the bindings used by every draw
BindGeometry ==
    /\ pc = "bind"
    /\ LET location == AsU32(gl.programs[shader_program].position)
           bound == [gl EXCEPT !.ARRAY_BUFFER = position_buffer]
           pointed == EnableAndPoint(bound, location, bound.ARRAY_BUFFER)
       IN  /\ attrib_location' = location
           /\ gl' = [pointed EXCEPT !.ELEMENT_ARRAY_BUFFER = index_buffer]
           /\ setupCalls' = setupCalls \o
                <<Call("get_attrib_location", <<shader_program, "position">>),
                  Call("bind_buffer", <<"ARRAY_BUFFER", position_buffer>>),
                  Call("enable_vertex_attrib_array", <<location>>),
                  Call("vertex_attrib_pointer", <<location>>),
                  Call("bind_buffer", <<"ELEMENT_ARRAY_BUFFER", index_buffer>>),
                  Call("clear_color", <<>>)>>
    /\ Continue("animate")
    /\ UNCHANGED <<listeners, contextLost, rafPending, regs, ticks, frameCalls,
                   surfaceLocals, mouseVars, shaderLocals, uniformLocals,
                   position_buffer, index_buffer, start_time, f, framesRun, histVars,
                   cellVars>>

\* ------------------------------------------------- the shared cells
\* RefCell borrow flags of mouse_x, mouse_y (lines 53-54) and of the slot f
\* (line 261): 0 is free, n > 0 is n live Ref guards, -1 is a live RefMut
\* borrow() succeeds unless a RefMut is live (lines 110, 265, 268)
Borrowable(cell) == borrow[cell] >= 0

\* borrow_mut() succeeds only on a free cell (lines 63, 64, 263)
BorrowableMut(cell) == borrow[cell] = 0

\* a Ref guard created by borrow()
Taken(b, cell) == [b EXCEPT ![cell] = @ + 1]

\* a guard going out of scope at the end of its statement
Dropped(b, cell) == [b EXCEPT ![cell] = IF @ > 0 THEN @ - 1 ELSE 0]

\* ------------------------------------------------- the animation loop
\* request_animation_frame (lines 241-245): one more callback is pending
request_animation_frame ==
    /\ rafPending' = rafPending + 1
    /\ regs' = Append(regs, Running)

\* the RefMut of line 263 kept alive after the assignment
PopulateSlot_KeepsGuard ==
    /\ pc = "animate"
    /\ \E now \in ClockValues : start_time' = now
    /\ f' = "Some"
    /\ borrow' = [borrow EXCEPT !.f = -1]
    /\ cellError' = cellError
    /\ Continue("register")
    /\ UNCHANGED <<hostVars, setupCalls, frameCalls, surfaceLocals, mouseVars,
                   shaderLocals, uniformLocals, bufferLocals, framesRun, histVars>>

\* line 94 and start_animation lines 261-266: the start time is captured by
\* the frame closure, the wrapped closure is stored in the slot through a
\* RefMut that is dropped at the end of the assignment
PopulateSlot ==
    /\ pc = "animate"
    /\ \E now \in ClockValues : start_time' = now
    /\ IF BorrowableMut("f")
       THEN f' = "Some" /\ Continue("register") /\ cellError' = cellError
       ELSE f' = f /\ Panic /\ cellError' = "BorrowMutError"
    /\ borrow' = borrow
    /\ UNCHANGED <<hostVars, setupCalls, frameCalls, surfaceLocals, mouseVars,
                   shaderLocals, uniformLocals, bufferLocals, framesRun, histVars>>

\* start_animation returning without the registration of line 268
FirstRegistration_Missing ==
    /\ pc = "register"
    /\ Continue("return")
    /\ UNCHANGED <<hostVars, setupCalls, frameCalls, surfaceLocals, mouseVars,
                   shaderLocals, uniformLocals, bufferLocals, start_time, f,
                   framesRun, histVars,
                   cellVars>>

\* start_animation line 268: the registration made outside the callback
FirstRegistration ==
    /\ pc = "register"
    /\ IF Borrowable("f") /\ f = "Some"
       THEN /\ request_animation_frame
            /\ Continue("return")
            /\ borrow' = Taken(borrow, "f")
            /\ cellError' = cellError
       ELSE /\ Panic
            /\ cellError' = IF Borrowable("f") THEN "unwrap on None"
                                               ELSE "BorrowError"
            /\ UNCHANGED <<rafPending, regs, borrow>>
    /\ UNCHANGED <<listeners, contextLost, gl, ticks, setupCalls, frameCalls,
                   surfaceLocals, mouseVars, shaderLocals, uniformLocals,
                   bufferLocals, start_time, f, framesRun, histVars>>

\* the Ref of line 268 is dropped at the end of its statement; line 125:
\* Ok(())
StartReturn ==
    /\ pc = "return"
    /\ startResult' = "ok"
    /\ pc' = "idle"
    /\ borrow' = Dropped(borrow, "f")
    /\ UNCHANGED <<errValue, hostVars, setupCalls, frameCalls, surfaceLocals,
                   mouseVars, shaderLocals, uniformLocals, bufferLocals,
                   start_time, f, framesRun, histVars, cellError>>

\* the wrapped closure registering itself before it runs the frame closure
Tick_RearmFirst ==
    /\ pc = "idle"
    /\ rafPending > 0
    /\ ticks < MaxFrames
    /\ rafPending' = (rafPending - 1) + 1
    /\ regs' = Append(regs, "callback")
    /\ ticks' = ticks + 1
    /\ frameCalls' = <<>>
    /\ pc' = "frame_clear"
    /\ UNCHANGED <<resultVars, listeners, contextLost, gl, setupCalls,
                   surfaceLocals, mouseVars, shaderLocals, uniformLocals,
                   bufferLocals, start_time, f, framesRun, histVars,
                   cellVars>>

\* the host's frame pacing invokes a pending callback (the wrapped closure
\* of lines 263-266) and removes it from the pending list
Tick ==
    /\ pc = "idle"
    /\ rafPending > 0
    /\ ticks < MaxFrames
    /\ rafPending' = rafPending - 1
    /\ ticks' = ticks + 1
    /\ frameCalls' = <<>>
    /\ pc' = "frame_clear"
    /\ UNCHANGED <<resultVars, listeners, contextLost, gl, regs, setupCalls,
                   surfaceLocals, mouseVars, shaderLocals, uniformLocals,
                   bufferLocals, start_time, f, framesRun, histVars,
                   cellVars>>

frameKept == <<resultVars, hostVars, setupCalls, surfaceLocals,
               mouseVars, shaderLocals, uniformLocals, bufferLocals,
               start_time, f, framesRun, histVars>>

frameUnchanged == <<frameKept, cellVars>>

\* line 97
FrameClear ==
    /\ pc = "frame_clear"
    /\ frameCalls' = Append(frameCalls, Call("clear", <<>>))
    /\ pc' = "frame_time"
    /\ UNCHANGED frameUnchanged

\* the frame taking the time it reads as the new start time
FrameTime_ResetsStart ==
    /\ pc = "frame_time"
    /\ IF ul_time = "Some"
       THEN \E current_time \in ClockValues :
              /\ frameCalls' = frameCalls \o
                   <<Call("get_current_time", <<current_time>>),
                     Call("uniform1f", <<"time", current_time - start_time>>)>>
              /\ start_time' = current_time
       ELSE frameCalls' = frameCalls /\ start_time' = start_time
    /\ pc' = "frame_mouse"
    /\ UNCHANGED <<resultVars, hostVars, setupCalls, surfaceLocals,
                   mouseVars, shaderLocals, uniformLocals, bufferLocals,
                   f, framesRun, histVars, cellVars>>

\* lines 99-105
FrameTime ==
    /\ pc = "frame_time"
    /\ IF ul_time = "Some"
       THEN \E current_time \in ClockValues :
              frameCalls' = frameCalls \o
                 <<Call("get_current_time", <<current_time>>),
                   Call("uniform1f", <<"time", current_time - start_time>>)>>
       ELSE frameCalls' = frameCalls
    /\ pc' = "frame_mouse"
    /\ UNCHANGED frameUnchanged

\* i32 as f32 / i32 as f32, kept as the exact quotient num/den; den = 0
\* is the IEEE result NaN (num = 0) or infinity (num > 0)
F32Div(num, den) == [num |-> num, den |-> den]

\* the mouse uniform set without the test of its location
FrameMouse_Unconditional ==
    /\ pc = "frame_mouse"
    /\ frameCalls' = Append(frameCalls,
          Call("uniform2fv", <<"mouse", F32Div(mouse_x, canvas_w),
                                        F32Div(mouse_y, canvas_h)>>))
    /\ borrow' = Taken(Taken(borrow, "mouse_x"), "mouse_y")
    /\ cellError' = cellError
    /\ pc' = "frame_resolution"
    /\ UNCHANGED frameKept

\* lines 107-110: the two Ref guards are temporaries of the statement that
\* calls uniform2fv and are alive during the call
FrameMouse ==
    /\ pc = "frame_mouse"
    /\ IF ul_mouse = "Some"
       THEN IF Borrowable("mouse_x") /\ Borrowable("mouse_y")
            THEN /\ frameCalls' = Append(frameCalls,
                       Call("uniform2fv",
                            <<"mouse", F32Div(mouse_x, canvas_w),
                                       F32Div(mouse_y, canvas_h)>>))
                 /\ borrow' = Taken(Taken(borrow, "mouse_x"), "mouse_y")
                 /\ pc' = "frame_resolution"
                 /\ cellError' = cellError
            ELSE /\ frameCalls' = frameCalls
                 /\ borrow' = borrow
                 /\ pc' = "idle"
                 /\ cellError' = "BorrowError"
       ELSE /\ frameCalls' = frameCalls
            /\ pc' = "frame_resolution"
            /\ UNCHANGED cellVars
    /\ UNCHANGED frameKept

\* line 111: the statement of the mouse uniform ends and its Ref guards
\* are dropped; lines 114-119
FrameResolution ==
    /\ pc = "frame_resolution"
    /\ borrow' = Dropped(Dropped(borrow, "mouse_x"), "mouse_y")
    /\ IF ul_resolution = "Some"
       THEN frameCalls' = Append(frameCalls,
               Call("uniform2fv", <<"resolution", canvas_w, canvas_h>>))
       ELSE frameCalls' = frameCalls
    /\ pc' = "frame_draw"
    /\ UNCHANGED <<frameKept, cellError>>

\* drawElements raises INVALID_OPERATION when no program is current
draw_elements(g) ==
    IF g.currentProgram = 0
    THEN [g EXCEPT !.errors = Append(@, "INVALID_OPERATION")]
    ELSE g

\* flush issued before the draw call
FrameDraw_FlushFirst ==
    /\ pc = "frame_draw"
    /\ gl' = draw_elements(gl)
    /\ frameCalls' = frameCalls \o
          <<Call("flush", <<>>),
            Call("draw_elements", <<"TRIANGLES", Len(IndexData)>>)>>
    /\ framesRun' = framesRun + 1
    /\ pc' = "rearm"
    /\ UNCHANGED <<resultVars, listeners, contextLost, rafPending, regs, ticks,
                   setupCalls, surfaceLocals, mouseVars, shaderLocals,
                   uniformLocals, bufferLocals, start_time, f, histVars,
                   cellVars>>

\* lines 121-122; the frame closure returns to the wrapped closure
FrameDraw ==
    /\ pc = "frame_draw"
    /\ gl' = draw_elements(gl)
    /\ frameCalls' = frameCalls \o
          <<Call("draw_elements", <<"TRIANGLES", Len(IndexData)>>),
            Call("flush", <<>>)>>
    /\ framesRun' = framesRun + 1
    /\ pc' = "rearm"
    /\ UNCHANGED <<resultVars, listeners, contextLost, rafPending, regs, ticks,
                   setupCalls, surfaceLocals, mouseVars, shaderLocals,
                   uniformLocals, bufferLocals, start_time, f, histVars,
                   cellVars>>

\* the wrapped closure registering itself twice
Rearm_Twice ==
    /\ pc = "rearm"
    /\ rafPending' = rafPending + 2
    /\ regs' = regs \o <<Running, Running>>
    /\ pc' = "cb_return"
    /\ UNCHANGED <<resultVars, listeners, contextLost, gl, ticks, setupCalls,
                   frameCalls, surfaceLocals, mouseVars, shaderLocals,
                   uniformLocals, bufferLocals, start_time, f, framesRun, histVars,
                   cellVars>>

\* the wrapped closure returning without registering itself
Rearm_Never ==
    /\ pc = "rearm"
    /\ pc' = "cb_return"
    /\ UNCHANGED <<resultVars, hostVars, setupCalls, frameCalls, surfaceLocals,
                   mouseVars, shaderLocals, uniformLocals, bufferLocals,
                   start_time, f, framesRun, histVars,
                   cellVars>>

\* line 265: the wrapped closure registers itself again
Rearm ==
    /\ pc = "rearm"
    /\ IF Borrowable("f") /\ f = "Some"
       THEN /\ request_animation_frame
            /\ pc' = "cb_return"
            /\ borrow' = Taken(borrow, "f")
            /\ cellError' = cellError
       ELSE /\ pc' = "idle"
            /\ cellError' = IF Borrowable("f") THEN "unwrap on None"
                                               ELSE "BorrowError"
            /\ UNCHANGED <<rafPending, regs, borrow>>
    /\ UNCHANGED <<resultVars, listeners, contextLost, gl, ticks, setupCalls,
                   frameCalls, surfaceLocals, mouseVars, shaderLocals,
                   uniformLocals, bufferLocals, start_time, f, framesRun, histVars>>

\* the values a frame handed to uniform1f (lines 101-104), in order
ElapsedPushed(calls) ==
    LET IsTime(c) == c.op = "uniform1f"
        pushed == SelectSeq(calls, IsTime)
    IN  [i \in 1..Len(pushed) |-> pushed[i].args[2]]

\* lines 265-266: the Ref of line 265 is dropped at the end of its
\* statement and the wrapped closure returns to the host; what the frame
\* pushed to the time uniform is from now on the previous frame's elapsed time
CallbackReturn ==
    /\ pc = "cb_return"
    /\ pc' = "idle"
    /\ prevElapsed' = IF ElapsedPushed(frameCalls) = <<>> THEN prevElapsed
                      ELSE <<ElapsedPushed(frameCalls)[Len(ElapsedPushed(frameCalls))]>>
    /\ frameCalls' = <<>>
    /\ borrow' = Dropped(borrow, "f")
    /\ UNCHANGED <<resultVars, hostVars, setupCalls, surfaceLocals,
                   mouseVars, shaderLocals, uniformLocals, bufferLocals,
                   start_time, f, framesRun, delivered, cellError>>

\* ------------------------------------------------- the pointer listener
\* the host dispatches a mousemove event to the listener: lines 62-63
MouseMove ==
    /\ pc = "idle"
    /\ listeners > 0
    /\ \E x \in Coords, y \in Coords :
          /\ delivered' = <<x, y>>
          /\ IF BorrowableMut("mouse_x")
             THEN /\ event' = <<x, y>>
                  /\ mouse_x' = x
                  /\ pc' = "mouse_y"
                  /\ cellError' = cellError
             ELSE /\ event' = <<>>
                  /\ mouse_x' = mouse_x
                  /\ pc' = "idle"
                  /\ cellError' = "BorrowMutError"
    /\ UNCHANGED <<resultVars, hostVars, setupCalls, frameCalls, surfaceLocals,
                   mouse_y, shaderLocals, uniformLocals, bufferLocals,
                   start_time, f, framesRun, prevElapsed, borrow>>

\* line 64 written with offset_x() in place of offset_y()
MouseWriteY_OffsetX ==
    /\ pc = "mouse_y"
    /\ mouse_y' = event[1]
    /\ event' = <<>>
    /\ pc' = "idle"
    /\ UNCHANGED <<resultVars, hostVars, setupCalls, frameCalls, surfaceLocals,
                   mouse_x, shaderLocals, uniformLocals, bufferLocals,
                   start_time, f, framesRun, histVars,
                   cellVars>>

\* line 64
MouseWriteY ==
    /\ pc = "mouse_y"
    /\ IF BorrowableMut("mouse_y")
       THEN mouse_y' = event[2] /\ cellError' = cellError
       ELSE mouse_y' = mouse_y /\ cellError' = "BorrowMutError"
    /\ event' = <<>>
    /\ pc' = "idle"
    /\ UNCHANGED <<resultVars, hostVars, setupCalls, frameCalls, surfaceLocals,
                   mouse_x, shaderLocals, uniformLocals, bufferLocals,
                   start_time, f, framesRun, histVars, borrow>>

\* ------------------------------------------------------- specifications
Next ==
    \/ CallStart
    \/ get_canvas_element_by_id
    \/ get_webgl_context
    \/ TrackPointer
    \/ CompileFragment
    \/ CompileVertex
    \/ LinkProgram
    \/ LookupUniforms
    \/ init_buffers
    \/ BindGeometry
    \/ PopulateSlot
    \/ FirstRegistration
    \/ StartReturn
    \/ Tick
    \/ FrameClear
    \/ FrameTime
    \/ FrameMouse
    \/ FrameResolution
    \/ FrameDraw
    \/ Rearm
    \/ CallbackReturn
    \/ MouseMove
    \/ MouseWriteY

Spec == Init /\ [][Next]_vars

\* the code each task runs goes on to its return (weak fairness of every
\* step inside a task); the host's frame pacing invokes a pending callback
\* however many pointer events are delivered in between (strong fairness)
FairSpec ==
    /\ Spec
    /\ SF_vars(Tick)
    /\ WF_vars(FrameClear) /\ WF_vars(FrameTime) /\ WF_vars(FrameMouse)
    /\ WF_vars(FrameResolution) /\ WF_vars(FrameDraw) /\ WF_vars(Rearm)
    /\ WF_vars(CallbackReturn) /\ WF_vars(MouseWriteY)

\* ----------------------------------------------------------------- claims

\* C1: at most one frame callback is registered with the host at any time;
\* the first registration is the one start_animation makes and every later
\* one is made from inside the wrapped callback.
C1_AtMostOnePending ==
    /\ rafPending <= 1
    /\ \A i \in 1..Len(regs) :
          regs[i] = IF i = 1 THEN "start_animation" ELSE "callback"

C1_Witness == Len(regs) >= 2 /\ rafPending = 1 /\ pc = "idle"

\* C2: an invocation of the wrapped callback runs the frame closure to its
\* end before it registers itself, and registers itself once: while the
\* frame closure runs nothing is pending, every earlier execution has ended
\* and no registration of this invocation exists; when the callback returns
\* exactly one registration has been added.
C2_FrameThenRearm ==
    /\ pc \in HandlerPcs =>
          rafPending = 0 /\ Len(regs) = ticks /\ framesRun = ticks - 1
    /\ pc = "rearm" =>
          rafPending = 0 /\ Len(regs) = ticks /\ framesRun = ticks
    /\ pc = "cb_return" =>
          rafPending = 1 /\ Len(regs) = ticks + 1 /\ framesRun = ticks

C2_Witness == pc = "cb_return" /\ ticks = 2

\* C3: at every scheduling point after start() succeeded, the frame closure
\* has been executed once per host tick and exactly one callback is pending.
C3_OneFramePerTick ==
    (pc = "idle" /\ startResult = "ok") =>
        framesRun = ticks /\ rafPending = 1

C3_Witness == pc = "idle" /\ startResult = "ok" /\ ticks = MaxFrames

\* C4: once start() has succeeded the loop is never idle (a callback is
\* pending or running) whatever pointer events and ticks occur, and under
\* the host's fairness every frame is followed by another one (up to the
\* MaxFrames frames the model runs).
C4_LoopNeverStops ==
    /\ [](startResult = "ok" => (rafPending = 1 \/ pc \in CallbackPcs))
    /\ \A k \in 0..(MaxFrames - 1) :
          (startResult = "ok" /\ framesRun = k) ~> (framesRun = k + 1)

C4_Witness ==
    startResult = "ok" /\ framesRun = MaxFrames /\ mouse_x # 0 /\ mouse_y # 0

\* the place of a call in the order of lines 97-122
Rank(c) ==
    CASE c.op = "clear" -> 1
      [] c.op = "get_current_time" -> 2
      [] c.op = "uniform1f" -> 3
      [] c.op = "uniform2fv" -> IF c.args[1] = "mouse" THEN 4 ELSE 5
      [] c.op = "draw_elements" -> 6
      [] c.op = "flush" -> 7
      [] OTHER -> 0

\* C5: the calls of one frame are made in the order clear, elapsed time,
\* time uniform, mouse uniform, resolution uniform, draw, flush, each at
\* most once: clear is the first, and a finished frame ends draw, flush.
C5_FrameOrder ==
    /\ \A i, j \in 1..Len(frameCalls) :
          i < j => Rank(frameCalls[i]) < Rank(frameCalls[j])
    /\ \A i \in 1..Len(frameCalls) : Rank(frameCalls[i]) > 0
    /\ pc \in (CallbackPcs \ {"frame_clear"}) =>
          Len(frameCalls) >= 1 /\ frameCalls[1].op = "clear"
    /\ pc \in {"rearm", "cb_return"} =>
          /\ Len(frameCalls) >= 3
          /\ frameCalls[Len(frameCalls)].op = "flush"
          /\ frameCalls[Len(frameCalls) - 1].op = "draw_elements"

C5_Witness == pc = "rearm" /\ Len(frameCalls) = 7

CompileFailed == \E i \in 1..Len(gl.shaders) : ~gl.shaders[i].compiled
LinkFailed == \E p \in 1..Len(gl.programs) : ~gl.programs[p].linked
LinkingOps == {"create_program", "attach_shader", "link_program", "use_program"}

\* C6: when a shader fails to compile, start() has returned the error whose
\* text is that shader's info log, the failed shader is not held as a
\* handle, and nothing of linking has happened: no program object, no
\* attach_shader, link_program or use_program call.
C6_CompileFailureStopsBeforeLink ==
    CompileFailed =>
       /\ startResult = "err"
       /\ errValue = <<"", gl.shaders[Len(gl.shaders)].log>>
       /\ ~gl.shaders[Len(gl.shaders)].compiled
       /\ Len(gl.shaders) \notin {fragment_shader, vertex_shader}
       /\ gl.programs = <<>>
       /\ gl.currentProgram = 0
       /\ \A i \in 1..Len(setupCalls) : setupCalls[i].op \notin LinkingOps

C6_Witness ==
    /\ Len(gl.shaders) = 2
    /\ ~gl.shaders[2].compiled
    /\ gl.shaders[2].log # ""
    /\ startResult = "err"

\* C7: a program is the context's current program exactly when its link
\* succeeded; after a failed link start() has returned the error carrying
\* the program info log and use_program was never called; after a
\* successful one use_program was called with it and it is the handle
\* init_shaders returned.
C7_CurrentIffLinked ==
    \A p \in 1..Len(gl.programs) :
       /\ gl.programs[p].linked <=> gl.currentProgram = p
       /\ gl.programs[p].linked <=>
             \E i \in 1..Len(setupCalls) :
                 setupCalls[i].op = "use_program" /\ setupCalls[i].args = <<p>>
       /\ gl.programs[p].linked => shader_program = p
       /\ ~gl.programs[p].linked =>
             /\ startResult = "err"
             /\ errValue = <<LinkErrorPrefix, gl.programs[p].log>>
             /\ shader_program = 0

C7_Witness ==
    /\ Len(gl.programs) = 1
    /\ ~gl.programs[1].linked
    /\ gl.programs[1].log # ""
    /\ gl.currentProgram = 0

\* C8: after a compile failure or a link failure start() has returned Err
\* (it has not panicked), no buffer has been allocated and no frame callback
\* has been registered or run.
C8_FailureIsReturned ==
    (CompileFailed \/ LinkFailed) =>
       /\ startResult = "err"
       /\ pc \in {"idle"} \cup MousePcs
       /\ gl.buffers = <<>>
       /\ \A i \in 1..Len(setupCalls) : setupCalls[i].op # "create_buffer"
       /\ regs = <<>>
       /\ rafPending = 0
       /\ ticks = 0

C8_Witness == LinkFailed /\ pc = "idle" /\ mouse_x = MaxCoord

UniformOps == {"uniform1f", "uniform2fv"}
UniformCalls(calls) == {i \in 1..Len(calls) : calls[i].op \in UniformOps}
UniformsSet(calls) == {calls[i].args[1] : i \in UniformCalls(calls)}
ActiveUniforms == gl.programs[gl.currentProgram].uniforms

\* C9: whatever uniforms the program exposes, a frame never sets a uniform
\* whose location is absent, and a finished frame has set each present one
\* exactly once, has raised no context error and has made the clear, draw
\* and flush calls.
C9_UniformsExactlyPresent ==
    pc \in CallbackPcs =>
       /\ UniformsSet(frameCalls) \subseteq ActiveUniforms
       /\ pc \in {"rearm", "cb_return"} =>
             /\ UniformsSet(frameCalls) = ActiveUniforms
             /\ Cardinality(UniformCalls(frameCalls)) = Cardinality(ActiveUniforms)
             /\ HasOp(frameCalls, "clear")
             /\ HasOp(frameCalls, "draw_elements")
             /\ HasOp(frameCalls, "flush")
             /\ framesRun = ticks
             /\ \A i \in 1..Len(gl.errors) : gl.errors[i] # "INVALID_OPERATION"

C9_Witness == pc = "rearm" /\ ActiveUniforms = {"mouse"}

LinkedPrograms == {p \in 1..Len(gl.programs) : gl.programs[p].linked}
FirstCall(op) ==
    CHOOSE i \in 1..Len(setupCalls) :
        setupCalls[i].op = op /\ \A j \in 1..(i - 1) : setupCalls[j].op # op
LastCall(op) ==
    CHOOSE i \in 1..Len(setupCalls) :
        setupCalls[i].op = op /\ \A j \in (i + 1)..Len(setupCalls) : setupCalls[j].op # op

\* setup was made in the order compile, link, buffer upload
SetupInOrder ==
    /\ HasOp(setupCalls, "compile_shader")
    /\ HasOp(setupCalls, "link_program")
    /\ HasOp(setupCalls, "buffer_data")
    /\ LastCall("compile_shader") < FirstCall("link_program")
    /\ LastCall("link_program") < FirstCall("buffer_data")

\* one linked program is current and both buffers are bound to their targets
ProgramAndBuffersReady ==
    /\ SetupInOrder
    /\ Cardinality(LinkedPrograms) = 1
    /\ gl.currentProgram \in LinkedPrograms
    /\ position_buffer # 0
    /\ gl.ARRAY_BUFFER = position_buffer
    /\ gl.buffers[position_buffer].data = PositionData
    /\ index_buffer # 0
    /\ gl.ELEMENT_ARRAY_BUFFER = index_buffer
    /\ gl.buffers[index_buffer].data = IndexData

\* the program's position attribute is enabled and reads the position buffer
PositionAttributeReady ==
    /\ gl.currentProgram # 0
    /\ LET position == gl.programs[gl.currentProgram].position
       IN  /\ position \in gl.enabledAttribs
           /\ <<position, position_buffer>> \in gl.attribPointers

\* C10: whenever a frame callback runs (and so whenever a draw call is
\* issued) setup has been made in the order compile, link, buffer upload,
\* exactly one linked program is current, the position buffer is bound to
\* ARRAY_BUFFER with the position attribute enabled and pointed at it, and
\* the index buffer is bound to ELEMENT_ARRAY_BUFFER.
C10_DrawOnReadyContext ==
    pc \in CallbackPcs => (ProgramAndBuffersReady /\ PositionAttributeReady)

\* what the code does establish before every frame: everything of C10 but
\* the attribute, which is ready exactly when the driver reported a location
C10_ReadyUpToAttribute ==
    pc \in CallbackPcs =>
       /\ ProgramAndBuffersReady
       /\ PositionAttributeReady <=>
             gl.programs[gl.currentProgram].position >= 0

\* C11: every elapsed value pushed to the time uniform is non-negative and
\* not below the one the previous frame pushed, whatever values the clock
\* read by get_current_time returns.
C11_ElapsedNonDecreasing ==
    \A i \in 1..Len(ElapsedPushed(frameCalls)) :
       /\ ElapsedPushed(frameCalls)[i] >= 0
       /\ prevElapsed # <<>> => ElapsedPushed(frameCalls)[i] >= prevElapsed[1]

\* the same, stated between two consecutive frames only
C11_ElapsedNeverDecreases ==
    \A i \in 1..Len(ElapsedPushed(frameCalls)) :
       prevElapsed # <<>> => ElapsedPushed(frameCalls)[i] >= prevElapsed[1]

\* the calls of a frame that set the mouse uniform (lines 108-111)
MouseUniformCalls(calls) ==
    {i \in 1..Len(calls) : calls[i].op = "uniform2fv" /\ calls[i].args[1] = "mouse"}

\* the f32 quotient num/den lies in [0, 1]: with den = 0 the quotient is
\* NaN or infinity, which does not
InUnitInterval(q) == q.den > 0 /\ 0 <= q.num /\ q.num <= q.den

\* C12: whenever the raw offset satisfies 0 <= x <= W and 0 <= y <= H, the
\* pair pushed to the mouse uniform lies in [0,1] x [0,1], the surfaces with
\* W = 0 or H = 0 included.
C12_NormalizedInUnitSquare ==
    \A i \in MouseUniformCalls(frameCalls) :
       LET nx == frameCalls[i].args[2]
           ny == frameCalls[i].args[3]
       IN  (0 <= nx.num /\ nx.num <= nx.den /\ 0 <= ny.num /\ ny.num <= ny.den)
              => (InUnitInterval(nx) /\ InUnitInterval(ny))

\* what the division does guarantee: the claim restricted to W > 0, H > 0
C12_NormalizedOnNonEmptySurface ==
    \A i \in MouseUniformCalls(frameCalls) :
       LET nx == frameCalls[i].args[2]
           ny == frameCalls[i].args[3]
       IN  (0 <= nx.num /\ nx.num <= nx.den /\ 0 <= ny.num /\ ny.num <= ny.den
            /\ canvas_w > 0 /\ canvas_h > 0)
              => (InUnitInterval(nx) /\ InUnitInterval(ny))

\* C13: the pair a frame pushes to the mouse uniform is made of the x and y
\* of one event, the last one dispatched before the frame began ((0, 0) when
\* none was), under every interleaving of events and frames.
C13_PointerReadIsOneEvent ==
    \A i \in MouseUniformCalls(frameCalls) :
       /\ frameCalls[i].args[2] = F32Div(delivered[1], canvas_w)
       /\ frameCalls[i].args[3] = F32Div(delivered[2], canvas_h)

C13_Witness ==
    /\ pc = "rearm"
    /\ ticks = 2
    /\ MouseUniformCalls(frameCalls) # {}
    /\ delivered = <<MaxCoord, 0>>

\* start() has gone past the subscription of lines 58-66
Subscribed ==
    \/ pc \in (StartPcs \ {"get_canvas", "get_context", "track"})
    \/ startResult \in {"ok", "panic"}
    \/ HasOp(setupCalls, "create_shader")

\* C14: the program registers one mousemove listener on the surface and
\* never removes it: there is never more than one, there is exactly one in
\* every state after the subscription, and no step takes it away.
C14_OneListenerForever ==
    /\ [](listeners <= 1)
    /\ [](Subscribed => listeners = 1)
    /\ [][listeners = 1 => listeners' = 1]_vars

C14_Witness ==
    /\ listeners = 1
    /\ startResult = "ok"
    /\ framesRun = MaxFrames
    /\ delivered = <<0, MaxCoord>>
    /\ pc = "idle"

AttributeOps == {"enable_vertex_attrib_array", "vertex_attrib_pointer"}

\* C15: every index start() passes to enable_vertex_attrib_array and
\* vertex_attrib_pointer is the non-negative location the driver reported
\* for position; when the driver reports absence (-1) no such call is made
\* and start() does not end Ok.
C15_AttributeIndexIsALocation ==
    /\ \A i \in 1..Len(setupCalls) :
          setupCalls[i].op \in AttributeOps =>
             /\ gl.programs[shader_program].position >= 0
             /\ setupCalls[i].args[1] = <<0, gl.programs[shader_program].position>>
    /\ (shader_program # 0 /\ gl.programs[shader_program].position < 0) =>
          startResult # "ok"

\* a step of a frame callback, a step of the pointer listener
FrameStep == pc \in CallbackPcs \/ pc' \in CallbackPcs
MouseStep == pc \in MousePcs \/ pc' \in MousePcs

\* what setup wrote: the current program, the programs, the bindings, the
\* buffers and their contents, the start time, the surface size
SetupState ==
    <<gl.currentProgram, gl.programs, gl.shaders, gl.ARRAY_BUFFER,
      gl.ELEMENT_ARRAY_BUFFER, gl.buffers, gl.enabledAttribs,
      gl.attribPointers, start_time, canvas_w, canvas_h>>

\* C16: no step of a frame and no step of the pointer listener changes
\* what setup wrote; a frame step leaves the pointer cells unchanged, and a
\* listener step changes nothing of the program's state but the pointer
\* cells.
C16_SetupIsImmutable ==
    [][ /\ FrameStep => /\ SetupState' = SetupState
                        /\ mouse_x' = mouse_x
                        /\ mouse_y' = mouse_y
        /\ MouseStep => /\ SetupState' = SetupState
                        /\ UNCHANGED <<resultVars, hostVars, setupCalls,
                                       frameCalls, surfaceLocals, shaderLocals,
                                       uniformLocals, bufferLocals, start_time,
                                       f, framesRun, prevElapsed, cellError>>
      ]_vars

C16_Witness ==
    /\ pc = "cb_return"
    /\ ticks = MaxFrames
    /\ delivered = <<MaxCoord, MaxCoord>>
    /\ mouse_x = MaxCoord /\ mouse_y = MaxCoord

CountOps(calls, op) == Cardinality({i \in 1..Len(calls) : calls[i].op = op})

\* start() returned Err from init_shaders (a compile or a link failure)
StartFailedInShaders ==
    startResult = "err" /\ HasOp(setupCalls, "compile_shader")

\* C17: after start() returned a compile or link error the mousemove
\* listener is still subscribed and every event still writes the pointer
\* cells, no frame callback exists to read them, and every shader and
\* program object created before the failure is still allocated.
C17_FailedStartLeavesListener ==
    StartFailedInShaders =>
       /\ listeners = 1
       /\ pc = "idle" => ENABLED MouseMove
       /\ mouse_x = delivered[1]
       /\ pc = "idle" => mouse_y = delivered[2]
       /\ rafPending = 0 /\ regs = <<>> /\ ticks = 0 /\ f = "None"
       /\ Len(gl.shaders) >= 1
       /\ Len(gl.shaders) = CountOps(setupCalls, "create_shader")
       /\ Len(gl.programs) = CountOps(setupCalls, "create_program")

C17_Witness ==
    /\ StartFailedInShaders
    /\ Len(gl.shaders) = 2
    /\ Len(gl.programs) = 1
    /\ pc = "idle"
    /\ mouse_x = MaxCoord /\ mouse_y = MaxCoord

Cells == {"mouse_x", "mouse_y", "f"}

\* C18: no access to a shared cell fails: no borrow or unwrap has raised an
\* error; while the listener runs and whenever the host may dispatch the
\* next event or callback no guard of any cell is alive, so its mutable
\* borrows of mouse_x and mouse_y meet no other borrow; and wherever the
\* slot is read (the first registration and every re-registration) it
\* holds Some and is not mutably borrowed.
C18_NoCellAccessFails ==
    /\ cellError = "none"
    /\ \A cell \in Cells : borrow[cell] \in 0..1
    /\ pc \in {"idle"} \cup MousePcs => \A cell \in Cells : borrow[cell] = 0
    /\ pc \in {"register", "rearm"} => (f = "Some" /\ Borrowable("f"))
    /\ borrow.f > 0 => (f = "Some" /\ pc \in {"return", "cb_return"})
    /\ (borrow.mouse_x > 0 \/ borrow.mouse_y > 0) => pc = "frame_resolution"

C18_Witness ==
    /\ pc = "cb_return"
    /\ borrow.f = 1
    /\ Len(regs) = 1 + MaxFrames
    /\ MouseUniformCalls(frameCalls) # {}
    /\ prevElapsed # <<>>
    /\ delivered = <<MaxCoord, MaxCoord>>
    /\ mouse_x = MaxCoord /\ mouse_y = MaxCoord

====
